---- MODULE Spec2Model ----
(***************************************************************************)
(* A model of server/routes/upload.ts: the upload request handler          *)
(* (handleUpload) and the token verifier (initializeFirebaseAdmin,         *)
(* verifyFirebaseToken, getFirebaseAuth).                                  *)
(*                                                                         *)
(* JavaScript strings are sequences of one-character strings, so that      *)
(* trim, split, toLowerCase, endsWith and the default sort order are       *)
(* computed rather than assumed.  A JavaScript value that may be absent or *)
(* of several types is a tagged record (Undef, Str, Bool, Arr, Obj).       *)
(* A string literal of the source whose characters are never inspected     *)
(* ("thumbnail-", a MIME type, an error message) is kept as one piece.     *)
(***************************************************************************)
EXTENDS Integers, Sequences, FiniteSets

\* ------------------------------------------------------------------ bounds

\* The clock (Date.now()) runs over 0..MaxClock.
MaxClock == 1
\* A request carries at most MaxMedia media files.
MaxMedia == 2
\* The token verifier is called at most MaxCalls times per caller.
MaxCalls == 2
\* The allow-list strings and the token emails of the allow-list runs are at
\* most this long.
MaxListLen == 3
MaxEmailLen == 3

\* ------------------------------------------------------- JavaScript values

Undef == [t |-> "undefined"]
Str(s) == [t |-> "string", s |-> s]
Bool(b) == [t |-> "boolean", b |-> b]
Arr(a) == [t |-> "array", a |-> a]
Obj == [t |-> "object"]

\* ToBoolean: undefined and the empty string are falsy, arrays and objects
\* (also empty ones) are truthy.
Truthy(v) ==
  CASE v.t = "undefined" -> FALSE
    [] v.t = "string" -> v.s # <<>>
    [] v.t = "boolean" -> v.b
    [] OTHER -> TRUE

\* x || d on an optional string: x when truthy, else the default.
OrElse(v, d) == IF Truthy(v) THEN v.s ELSE d

\* ----------------------------------------------------------------- strings

\* UTF-16 code units of the characters the model uses.
CharCode(c) ==
  CASE c = " " -> 32
    [] c = "," -> 44
    [] c = "-" -> 45
    [] c = "." -> 46
    [] c = "0" -> 48 [] c = "1" -> 49 [] c = "2" -> 50 [] c = "3" -> 51
    [] c = "4" -> 52 [] c = "5" -> 53 [] c = "6" -> 54 [] c = "7" -> 55
    [] c = "8" -> 56 [] c = "9" -> 57
    [] c = "@" -> 64
    [] c = "A" -> 65 [] c = "B" -> 66 [] c = "X" -> 88
    [] c = "a" -> 97 [] c = "b" -> 98 [] c = "x" -> 120
    [] OTHER -> 122

\* String.prototype.toLowerCase, character by character.
LowerChar(c) ==
  CASE c = "A" -> "a"
    [] c = "B" -> "b"
    [] c = "X" -> "x"
    [] OTHER -> c

ToLowerCase(s) == [k \in 1..Len(s) |-> LowerChar(s[k])]

IsSpace(c) == c = " "

RECURSIVE TrimStart(_)
TrimStart(s) ==
  IF s # <<>> /\ IsSpace(Head(s)) THEN TrimStart(Tail(s)) ELSE s

RECURSIVE TrimEnd(_)
TrimEnd(s) ==
  IF s # <<>> /\ IsSpace(s[Len(s)]) THEN TrimEnd(SubSeq(s, 1, Len(s) - 1)) ELSE s

\* String.prototype.trim
Trim(s) == TrimEnd(TrimStart(s))

StartsWith(s, p) == Len(p) <= Len(s) /\ SubSeq(s, 1, Len(p)) = p

EndsWith(s, p) ==
  Len(p) <= Len(s) /\ SubSeq(s, Len(s) - Len(p) + 1, Len(s)) = p

\* String.prototype.split on a one-character separator: always at least one
\* piece, empty pieces kept.
RECURSIVE SplitFrom(_, _, _)
SplitFrom(s, sep, cur) ==
  IF s = <<>> THEN <<cur>>
  ELSE IF Head(s) = sep THEN <<cur>> \o SplitFrom(Tail(s), sep, <<>>)
  ELSE SplitFrom(Tail(s), sep, Append(cur, Head(s)))

Split(s, sep) == SplitFrom(s, sep, <<>>)

\* The order of Array.prototype.sort without a comparator: by UTF-16 code
\* units, a proper prefix first.
RECURSIVE StrLess(_, _)
StrLess(s, u) ==
  IF u = <<>> THEN FALSE
  ELSE IF s = <<>> THEN TRUE
  ELSE IF CharCode(Head(s)) # CharCode(Head(u))
    THEN CharCode(Head(s)) < CharCode(Head(u))
  ELSE StrLess(Tail(s), Tail(u))

Digit(d) ==
  CASE d = 0 -> "0" [] d = 1 -> "1" [] d = 2 -> "2" [] d = 3 -> "3"
    [] d = 4 -> "4" [] d = 5 -> "5" [] d = 6 -> "6" [] d = 7 -> "7"
    [] d = 8 -> "8" [] OTHER -> "9"

\* Number.prototype.toString of a natural number: its decimal digits.
RECURSIVE ToString(_)
ToString(n) ==
  IF n < 10 THEN <<Digit(n)>> ELSE Append(ToString(n \div 10), Digit(n % 10))

Range(s) == {s[k] : k \in 1..Len(s)}

\* ----------------------------------------------------------- upload: data

VARIABLES
  clients,            \* the clients whose requests are in the run
  now,                \* the clock behind Date.now() and new Date()
  devMode,            \* process.env.NODE_ENV === "development"
  registry,           \* storage: the servers list
  store,              \* storage: objects by key <<postId, name>>
  pc,                 \* per client: where its handleUpload invocation stands
  req,                \* per client: the request (body fields and files)
  postId,             \* per client: const postId
  thumbnailFileName,  \* per client: const thumbnailFileName
  thumbnailUrl,       \* per client: const thumbnailUrl
  i,                  \* per client: the loop index
  mediaFileName,      \* per client: the name of the media upload in flight
  mediaFileNames,     \* per client: const mediaFileNames
  updatedServers,     \* per client: const updatedServers
  calls,              \* per client: the storage calls issued, in order
  settled,            \* per client: how the calls settled, in order
  responses           \* per client: the responses sent, in order

uploadVars ==
  <<clients, now, devMode, registry, store, pc, req, postId, thumbnailFileName,
    thumbnailUrl, i, mediaFileName, mediaFileNames, updatedServers, calls,
    settled, responses>>

AllClients == {"c1", "c2"}

\* Server names: "B" sorts before "a" (code units), "a" before its extension "ab".
ServerNames == {<<"a">>, <<"B">>, <<"a", "b">>}

\* Multer files: originalname and mimetype may be empty, buffer is the content.
MediaFiles ==
  { [originalname |-> <<>>, mimetype |-> <<>>, buffer |-> "m0"],
    [originalname |-> <<"x">>, mimetype |-> <<"video/mp4">>, buffer |-> "m1"] }

ThumbFiles ==
  { [originalname |-> <<"x">>, mimetype |-> <<>>, buffer |-> "t0"],
    [originalname |-> <<"x">>, mimetype |-> <<"image/png">>, buffer |-> "t1"] }

SeqsUpTo(S, n) == UNION {[1..k -> S] : k \in 0..n}

\* req.files: undefined, or the groups by field name; a group is absent, a
\* non-array object, or an array of files.
FileGroups ==
  {Undef} \cup
  { [t |-> "files", media |-> m, thumbnail |-> th] :
      m \in {Undef, Obj} \cup {Arr(a) : a \in SeqsUpTo(MediaFiles, MaxMedia)},
      th \in {Undef, Obj, Arr(<<>>)} \cup {Arr(<<f>>) : f \in ThumbFiles} }

Titles == {Undef, Str(<<>>), Str(<<"t">>)}
Descriptions == {Undef, Str(<<>>), Str(<<"d">>)}
Places == {Undef, Str(<<"x">>)}
ServerFields ==
  {Undef, Str(<<>>), Str(<<" ">>)} \cup {Str(n) : n \in ServerNames}
NsfwFields ==
  {Undef, Str(<<"t", "r", "u", "e">>), Str(<<"f", "a", "l", "s", "e">>),
   Str(<<"T", "r", "u", "e">>), Bool(TRUE), Bool(FALSE)}

\* A valid request with one media file.
PlainFiles ==
  [t |-> "files",
   media |-> Arr(<<[originalname |-> <<"x">>, mimetype |-> <<"video/mp4">>, buffer |-> "m1"]>>),
   thumbnail |-> Arr(<<[originalname |-> <<"x">>, mimetype |-> <<>>, buffer |-> "t0"]>>)]

\* The requests of the single-client runs.  The required fields and the file
\* groups take every shape, with and without a server name; the fields that
\* only flow into the metadata and the registry take every value on a
\* request with one media file.
Requests ==
  [title : Titles, description : Descriptions, country : {Undef}, city : {Undef},
   server : {Undef, Str(<<"a">>)}, nsfw : {Undef}, files : FileGroups]
  \cup
  [title : {Str(<<"t">>)}, description : {Str(<<"d">>)}, country : Places,
   city : Places, server : ServerFields, nsfw : NsfwFields, files : {PlainFiles}]

\* The requests of the concurrent runs: valid, one media file, a server name.
ConcurrentRequests ==
  [title : {Str(<<"t">>)}, description : {Str(<<"d">>)}, country : {Undef},
   city : {Undef}, server : {Str(<<"a">>), Str(<<"B">>)}, nsfw : {Undef},
   files : {PlainFiles}]

\* What a storage call may do: succeed, or reject with some message.
ErrorMessages == {"timeout", "denied"}
Outcomes == {[ok |-> TRUE]} \cup {[ok |-> FALSE, msg |-> m] : m \in ErrorMessages}

\* The registries storage can hold: distinct names, sorted.
RECURSIVE IsSorted(_)
IsSorted(s) ==
  Len(s) < 2 \/ (StrLess(s[1], s[2]) /\ IsSorted(Tail(s)))

Registries == {s \in SeqsUpTo(ServerNames, Cardinality(ServerNames)) : IsSorted(s)}

\* ------------------------------------------------ upload: pure functions

\* files?.media and files?.thumbnail
FilesMedia(r) == IF r.files = Undef THEN Undef ELSE r.files.media
FilesThumbnail(r) == IF r.files = Undef THEN Undef ELSE r.files.thumbnail

\* The validation sequence without its check of the thumbnail group.
ValidationErrorThumbnailUnchecked(r) ==
  IF \/ ~Truthy(r.title) \/ ~Truthy(r.description)
     \/ ~Truthy(FilesMedia(r))
    THEN "Missing required fields"
  ELSE IF FilesMedia(r).t # "array"
    THEN "Media files format is invalid"
  ELSE IF Len(FilesMedia(r).a) = 0
    THEN "At least one media file is required"
  ELSE IF FilesThumbnail(r).t # "array" \/ Len(FilesThumbnail(r).a) = 0
    THEN "Thumbnail is required"
  ELSE ""

\* The validation sequence without its check for an empty media list.
ValidationErrorEmptyMediaUnchecked(r) ==
  IF \/ ~Truthy(r.title) \/ ~Truthy(r.description)
     \/ ~Truthy(FilesMedia(r)) \/ ~Truthy(FilesThumbnail(r))
    THEN "Missing required fields"
  ELSE IF FilesMedia(r).t # "array"
    THEN "Media files format is invalid"
  ELSE IF FilesThumbnail(r).t # "array" \/ Len(FilesThumbnail(r).a) = 0
    THEN "Thumbnail is required"
  ELSE ""

\* The validation sequence: the error of the first check that fails, or
\* "" when the request passes.
ValidationError(r) ==
  IF \/ ~Truthy(r.title) \/ ~Truthy(r.description)
     \/ ~Truthy(FilesMedia(r)) \/ ~Truthy(FilesThumbnail(r))
    THEN "Missing required fields"
  ELSE IF FilesMedia(r).t # "array"
    THEN "Media files format is invalid"
  ELSE IF Len(FilesMedia(r).a) = 0
    THEN "At least one media file is required"
  ELSE IF FilesThumbnail(r).t # "array" \/ Len(FilesThumbnail(r).a) = 0
    THEN "Thumbnail is required"
  ELSE ""

\* An identifier that also names the request it was made for.
PostIdPerRequest(c, t) == ToString(t) \o <<"-", c>>

\* Date.now().toString(): the identifier of the post of client c, made
\* when the clock reads t.
PostIdOf(c, t) == ToString(t)

\* `thumbnail-${Date.now()}`
ThumbnailName(t) == <<"thumbnail-">> \o ToString(t)

\* mediaFile.originalname || `media-${i + 1}`
SanitizedName(f, k) ==
  IF f.originalname # <<>> THEN f.originalname ELSE <<"media-">> \o ToString(k + 1)

\* `${Date.now()}-${i}-${sanitizedName}`
MediaName(t, k, f) ==
  ToString(t) \o <<"-">> \o ToString(k) \o <<"-">> \o SanitizedName(f, k)

\* mimetype || default
ContentType(f, default) == IF f.mimetype # <<>> THEN f.mimetype ELSE default

\* A flag that is true for every truthy nsfw field.
NsfwFlagTruthy(v) == Truthy(v)

\* nsfw === "true" || nsfw === true
NsfwFlag(v) ==
  \/ v = Str(<<"t", "r", "u", "e">>)
  \/ v = Bool(TRUE)

\* A metadata object that lists the files' original names.
PostMetadataOriginalNames(r, id, names, t) ==
  [id |-> id, title |-> r.title.s, description |-> r.description.s,
   country |-> OrElse(r.country, <<>>), city |-> OrElse(r.city, <<>>),
   server |-> OrElse(r.server, <<>>), nsfw |-> NsfwFlag(r.nsfw),
   mediaFiles |-> [k \in 1..Len(names) |-> r.files.media.a[k].originalname],
   createdAt |-> t]

\* The postMetadata object.
PostMetadata(r, id, names, t) ==
  [id |-> id, title |-> r.title.s, description |-> r.description.s,
   country |-> OrElse(r.country, <<>>), city |-> OrElse(r.city, <<>>),
   server |-> OrElse(r.server, <<>>), nsfw |-> NsfwFlag(r.nsfw),
   mediaFiles |-> names, createdAt |-> t]

\* A test that takes every non-empty server field for a name.
ServerGivenUntrimmed(r) == Truthy(r.server)

\* server && server.trim()
ServerGiven(r) == Truthy(r.server) /\ Trim(r.server.s) # <<>>

\* Array.from(new Set(list)): the first occurrence of each element, in order.
RECURSIVE Distinct(_, _)
Distinct(s, seen) ==
  IF s = <<>> THEN <<>>
  ELSE IF Head(s) \in seen THEN Distinct(Tail(s), seen)
  ELSE <<Head(s)>> \o Distinct(Tail(s), seen \cup {Head(s)})

RECURSIVE Insert(_, _)
Insert(x, s) ==
  IF s = <<>> THEN <<x>>
  ELSE IF StrLess(x, Head(s)) THEN <<x>> \o s
  ELSE <<Head(s)>> \o Insert(x, Tail(s))

\* Array.prototype.sort() without a comparator.
RECURSIVE SortStrings(_)
SortStrings(s) ==
  IF s = <<>> THEN <<>> ELSE Insert(Head(s), SortStrings(Tail(s)))

\* The list with the new name appended and no sort.
UpdatedServersUnsorted(servers, server) ==
  Distinct(Append(servers, server), {})

\* Array.from(new Set([...servers, server])) followed by sort().
UpdatedServers(servers, server) ==
  SortStrings(Distinct(Append(servers, server), {}))

\* The success body with the thumbnail counted among the media files.
SuccessBodyCountsThumbnail(id, names) ==
  [success |-> TRUE, message |-> "Post uploaded successfully", postId |-> id,
   mediaCount |-> Len(names) + 1]

\* The three response bodies.
SuccessBody(id, names) ==
  [success |-> TRUE, message |-> "Post uploaded successfully", postId |-> id,
   mediaCount |-> Len(names)]

ValidationBody(e) == [error |-> e]

\* `Upload to R2 failed: ${errorMessage}`, and details only in development.
R2ErrorBody(msg, dev) ==
  [error |-> <<"Upload to R2 failed: ", msg>>,
   details |-> IF dev THEN Str(<<msg>>) ELSE Undef]

\* -------------------------------------------------------- upload: storage

\* The key of an object of a post.
Key(id, name) == <<id, name>>
MetadataKey(id) == <<id, <<"metadata">>>>

\* The URL uploadMediaFile resolves to.
UrlOf(id, name) == <<"url">> \o id \o <<"/">> \o name

\* A write: the object under the key is replaced.
Put(st, k, v) == [x \in DOMAIN st \cup {k} |-> IF x = k THEN v ELSE st[x]]

UploadCall(id, name, f, default) ==
  [op |-> "uploadMediaFile", postId |-> id, name |-> name, buffer |-> f.buffer,
   contentType |-> ContentType(f, default)]

MetadataCall(id, meta, url) ==
  [op |-> "uploadPostMetadataWithThumbnail", postId |-> id, metadata |-> meta,
   thumbnailUrl |-> url]

GetServersCall == [op |-> "getServersList"]
UpdateServersCall(list) == [op |-> "updateServersList", servers |-> list]

\* -------------------------------------------------- token verifier: data

VARIABLES
  env,                \* process.env: the credential fields and the allow-list
  apps,               \* admin.apps: the apps the SDK holds
  firebaseApp,        \* let firebaseApp
  vpc,                \* per caller: where its call stands
  token,              \* per caller: the idToken of the call in flight
  outcome,            \* per caller: what its last call returned or threw
  ncalls,             \* per caller: the calls made
  log                 \* console output of the verifier, in order

authVars == <<env, apps, firebaseApp, vpc, token, outcome, ncalls, log>>

vars == <<uploadVars, authVars>>

\* ------------------------------------------------------- upload: handler

\* Date.now(): the clock does not run backwards.
ClockReads == now..MaxClock

\* The outer catch (lines 157-168) takes what is thrown outside the inner
\* try.  With req.body an object, as its declared type says, none of the
\* statements there throws, so no step of the model leads to it.

\* A handler that goes on after answering and answers again.
RespondTwice(c, status, body) ==
  /\ responses' = [responses EXCEPT ![c] =
       Append(Append(@, [status |-> status, body |-> body]),
              [status |-> status, body |-> body])]
  /\ pc' = [pc EXCEPT ![c] = "done"]

\* res.status(s).json(body) and the end of the invocation.
Respond(c, status, body) ==
  /\ responses' = [responses EXCEPT ![c] = Append(@, [status |-> status, body |-> body])]
  /\ pc' = [pc EXCEPT ![c] = "done"]

\* A catch block that deletes what the request had written.
StoreRolledBack(c) ==
  [k \in {x \in DOMAIN store : x[1] # postId[c]} |-> store[k]]

\* Storage after the catch (r2Error) block: the block makes no storage call.
StoreAfterFailure(c) == store

\* A catch block that answers as if the upload had gone through.
FailR2Swallowed(c, msg) ==
  Respond(c, 200, SuccessBody(postId[c], mediaFileNames[c]))

\* The catch (r2Error) block.
FailR2(c, msg) == Respond(c, 500, R2ErrorBody(msg, devMode))

\* The loop body up to its await: name the file and start its upload.
StartMedia(c, k, t) ==
  LET f == FilesMedia(req[c]).a[k + 1]
      name == MediaName(t, k, f)
  IN /\ i' = [i EXCEPT ![c] = k]
     /\ mediaFileName' = [mediaFileName EXCEPT ![c] = name]
     /\ calls' = [calls EXCEPT ![c] =
          Append(@, UploadCall(postId[c], name, f, <<"application/octet-stream">>))]
     /\ pc' = [pc EXCEPT ![c] = "media"]

\* Lines 21-82: validation, the identifiers, and the thumbnail upload started.
Receive(c, r) ==
  /\ c \in clients
  /\ pc[c] = "idle"
  /\ req' = [req EXCEPT ![c] = r]
  /\ IF ValidationError(r) # ""
       THEN /\ Respond(c, 400, ValidationBody(ValidationError(r)))
            /\ UNCHANGED <<now, postId, thumbnailFileName, calls>>
       ELSE \E t1 \in ClockReads : \E t2 \in t1..MaxClock :
              /\ now' = t2
              /\ postId' = [postId EXCEPT ![c] = PostIdOf(c, t1)]
              /\ thumbnailFileName' = [thumbnailFileName EXCEPT ![c] = ThumbnailName(t2)]
              /\ calls' = [calls EXCEPT ![c] =
                   <<UploadCall(PostIdOf(c, t1), ThumbnailName(t2),
                                FilesThumbnail(r).a[1], <<"image/jpeg">>)>>]
              /\ pc' = [pc EXCEPT ![c] = "thumbnail"]
              /\ UNCHANGED responses
  /\ UNCHANGED <<clients, devMode, registry, store, thumbnailUrl, i, mediaFileName,
                 mediaFileNames, updatedServers, settled, authVars>>

\* Lines 77-100: the thumbnail upload settles; on success the loop starts.
ThumbnailDone(c, out) ==
  /\ c \in clients
  /\ pc[c] = "thumbnail"
  /\ settled' = [settled EXCEPT ![c] = Append(@, out)]
  /\ IF out.ok
       THEN /\ store' = Put(store, Key(postId[c], thumbnailFileName[c]),
                            calls[c][Len(calls[c])])
            /\ thumbnailUrl' = [thumbnailUrl EXCEPT ![c] =
                 Str(UrlOf(postId[c], thumbnailFileName[c]))]
            /\ \E t \in ClockReads : now' = t /\ StartMedia(c, 0, t)
            /\ UNCHANGED responses
       ELSE /\ FailR2(c, out.msg)
            /\ store' = StoreAfterFailure(c)
            /\ UNCHANGED <<thumbnailUrl, now, i, mediaFileName, calls>>
  /\ UNCHANGED <<clients, devMode, registry, req, postId, thumbnailFileName,
                 mediaFileNames, updatedServers, authVars>>

\* Lines 95-119: a media upload settles; on success its name is pushed, and
\* the next upload, or after the last one the metadata write, is started.
MediaDone(c, out) ==
  /\ c \in clients
  /\ pc[c] = "media"
  /\ settled' = [settled EXCEPT ![c] = Append(@, out)]
  /\ IF out.ok
       THEN /\ store' = Put(store, Key(postId[c], mediaFileName[c]),
                            calls[c][Len(calls[c])])
            /\ mediaFileNames' = [mediaFileNames EXCEPT ![c] = Append(@, mediaFileName[c])]
            /\ \E t \in ClockReads :
                 /\ now' = t
                 /\ IF i[c] + 1 < Len(FilesMedia(req[c]).a)
                      THEN StartMedia(c, i[c] + 1, t)
                      ELSE /\ calls' = [calls EXCEPT ![c] =
                                Append(@, MetadataCall(postId[c],
                                  PostMetadata(req[c], postId[c],
                                               Append(mediaFileNames[c], mediaFileName[c]), t),
                                  thumbnailUrl[c]))]
                           /\ pc' = [pc EXCEPT ![c] = "metadata"]
                           /\ i' = [i EXCEPT ![c] = @ + 1]
                           /\ UNCHANGED mediaFileName
            /\ UNCHANGED responses
       ELSE /\ FailR2(c, out.msg)
            /\ store' = StoreAfterFailure(c)
            /\ UNCHANGED <<mediaFileNames, now, i, mediaFileName, calls>>
  /\ UNCHANGED <<clients, devMode, registry, req, postId, thumbnailFileName,
                 thumbnailUrl, updatedServers, authVars>>

\* A registry failure sent on to the catch (r2Error) block.
ServerErrorEscalated(c, out) == FailR2(c, out.msg)

\* The list recomputed from the registry as it is when the write is made.
WrittenServersReread(c) == UpdatedServers(registry, req[c].server.s)

\* Lines 127-141: the catch (serverError) block, and the success response
\* that follows the registry step however it ended.
ServerErrorCaught(c, out) ==
  Respond(c, 200, SuccessBody(postId[c], mediaFileNames[c]))

\* The list updateServersList is given: the one computed from this request's
\* own read.
WrittenServers(c) == updatedServers[c]

\* Lines 119-141: the metadata write settles; on success the registry update
\* is started when a server was named, else the success response is sent.
MetadataDone(c, out) ==
  /\ c \in clients
  /\ pc[c] = "metadata"
  /\ settled' = [settled EXCEPT ![c] = Append(@, out)]
  /\ IF out.ok
       THEN /\ store' = Put(store, MetadataKey(postId[c]), calls[c][Len(calls[c])])
            /\ IF ServerGiven(req[c])
                 THEN /\ calls' = [calls EXCEPT ![c] = Append(@, GetServersCall)]
                      /\ pc' = [pc EXCEPT ![c] = "getServers"]
                      /\ UNCHANGED responses
                 ELSE /\ Respond(c, 200, SuccessBody(postId[c], mediaFileNames[c]))
                      /\ UNCHANGED calls
       ELSE /\ FailR2(c, out.msg)
            /\ store' = StoreAfterFailure(c)
            /\ UNCHANGED calls
  /\ UNCHANGED <<clients, now, devMode, registry, req, postId, thumbnailFileName,
                 thumbnailUrl, i, mediaFileName, mediaFileNames, updatedServers,
                 authVars>>

\* Lines 123-129: getServersList settles; on success the updated list is
\* computed and its write started; a failure is logged and swallowed.
GetServersDone(c, out) ==
  /\ c \in clients
  /\ pc[c] = "getServers"
  /\ settled' = [settled EXCEPT ![c] = Append(@, out)]
  /\ IF out.ok
       THEN /\ updatedServers' = [updatedServers EXCEPT ![c] =
                 UpdatedServers(registry, req[c].server.s)]
            /\ calls' = [calls EXCEPT ![c] =
                 Append(@, UpdateServersCall(UpdatedServers(registry, req[c].server.s)))]
            /\ pc' = [pc EXCEPT ![c] = "updateServers"]
            /\ UNCHANGED responses
       ELSE /\ ServerErrorCaught(c, out)
            /\ UNCHANGED <<updatedServers, calls>>
  /\ UNCHANGED <<clients, now, devMode, registry, store, req, postId,
                 thumbnailFileName, thumbnailUrl, i, mediaFileName, mediaFileNames,
                 authVars>>

\* Lines 126-141: updateServersList settles; the success response follows
\* whether it succeeded or was swallowed.
UpdateServersDone(c, out) ==
  /\ c \in clients
  /\ pc[c] = "updateServers"
  /\ settled' = [settled EXCEPT ![c] = Append(@, out)]
  /\ IF out.ok
       THEN /\ registry' = WrittenServers(c)
            /\ Respond(c, 200, SuccessBody(postId[c], mediaFileNames[c]))
       ELSE /\ registry' = registry
            /\ ServerErrorCaught(c, out)
  /\ UNCHANGED <<clients, now, devMode, store, req, postId, thumbnailFileName,
                 thumbnailUrl, i, mediaFileName, mediaFileNames, updatedServers,
                 calls, authVars>>

\* --------------------------------------------- token verifier: functions

Null == [t |-> "null"]

Begin == "BEGIN PRIVATE KEY"
End == "END PRIVATE KEY"
\* The two characters backslash and n, and the newline character.
EscapedNewline == "\\n"
Newline == "\n"

\* FIREBASE_PRIVATE_KEY: absent, empty, no markers, a key with escaped
\* newlines, the same key with real newlines, a key cut before its end
\* marker, and markers around something that is no key.
PrivateKeys ==
  { Undef, Str(<<>>), Str(<<"MIIEvQ">>),
    Str(<<Begin, EscapedNewline, "MIIEvQ", EscapedNewline, End>>),
    Str(<<Begin, Newline, "MIIEvQ", Newline, End>>),
    Str(<<Begin, EscapedNewline, "MIIEvQ">>),
    Str(<<Begin, EscapedNewline, "???", EscapedNewline, End>>) }

ProjectIds == {Undef, Str(<<>>), Str(<<"p">>)}
ClientEmails == {Undef, Str(<<>>), Str(<<"s", "@", "p">>)}

\* VITE_AUTHORIZED_EMAILS
AllowLists ==
  { Undef, Str(<<",">>), Str(<<"a", "@", "x">>), Str(<<"@", "x">>),
    Str(<<" ", "A", "@", "x", " ", ",", "@", "b">>) }

Environments ==
  [projectId : ProjectIds, privateKey : PrivateKeys, clientEmail : ClientEmails,
   authorizedEmails : AllowLists]

Emails ==
  { Undef, Str(<<>>), Str(<<"a", "@", "x">>), Str(<<"B", "@", "X">>),
    Str(<<"a", "@", "b">>), Str(<<"x">>) }

\* What verifyIdToken can be given: a token the SDK rejects as expired or as
\* malformed, or one it decodes.
Tokens ==
  {[kind |-> "expired"], [kind |-> "malformed"]} \cup
  {[kind |-> "valid", uid |-> "u", email |-> e] : e \in Emails}

\* privateKey.replace(/\\n/g, "\n")
NormalizeKey(k) ==
  [n \in 1..Len(k) |-> IF k[n] = EscapedNewline THEN Newline ELSE k[n]]

\* privateKey.includes(marker)
Includes(k, marker) == marker \in Range(k)

\* admin.credential.cert accepts a PEM key: the markers on lines of their
\* own around the encoded key.
CertAccepts(k) == k = <<Begin, Newline, "MIIEvQ", Newline, End>>

\* Lines 181-226: the configuration is read and validated and the app
\* constructed: what is returned, what is left in admin.apps and firebaseApp,
\* and what is logged.
ConfigureApp ==
  IF \/ ~Truthy(env.projectId) \/ ~Truthy(env.privateKey)
     \/ ~Truthy(env.clientEmail)
    THEN [ret |-> Null, apps |-> apps, firebaseApp |-> firebaseApp,
          log |-> <<[event |-> "config missing",
                     hasProjectId |-> Truthy(env.projectId),
                     hasPrivateKey |-> Truthy(env.privateKey),
                     hasClientEmail |-> Truthy(env.clientEmail)]>>]
  ELSE IF \/ ~Includes(NormalizeKey(env.privateKey.s), Begin)
          \/ ~Includes(NormalizeKey(env.privateKey.s), End)
    THEN [ret |-> Null, apps |-> apps, firebaseApp |-> firebaseApp,
          log |-> <<[event |-> "key format invalid"]>>]
  ELSE IF CertAccepts(NormalizeKey(env.privateKey.s))
    THEN LET app == [projectId |-> env.projectId.s,
                     privateKey |-> NormalizeKey(env.privateKey.s),
                     clientEmail |-> env.clientEmail.s]
         IN [ret |-> app, apps |-> Append(apps, app), firebaseApp |-> app,
             log |-> <<[event |-> "initialized"]>>]
  ELSE [ret |-> Null, apps |-> apps, firebaseApp |-> firebaseApp,
        log |-> <<[event |-> "initializeApp failed"]>>]

\* Lines 177-179: the app admin.apps already holds.
ExistingApp ==
  [ret |-> apps[1], apps |-> apps, firebaseApp |-> firebaseApp, log |-> <<>>]

\* An initialization that remembers a failed configuration and gives up
\* without reading it again.
InitializeFirebaseAdminFailureKept ==
  IF Len(apps) > 0 THEN ExistingApp
  ELSE IF \E k \in 1..Len(log) :
            log[k].event \in {"config missing", "key format invalid"}
    THEN [ret |-> Null, apps |-> apps, firebaseApp |-> firebaseApp, log |-> <<>>]
  ELSE ConfigureApp

\* An initialization without the look at admin.apps.
InitializeFirebaseAdminUnguarded == ConfigureApp

\* initializeFirebaseAdmin
InitializeFirebaseAdmin ==
  IF Len(apps) > 0 THEN ExistingApp ELSE ConfigureApp

\* The allow-list: split on commas, trimmed, lower-cased, empty entries dropped.
EmailList(authorizedEmails) ==
  LET pieces == Split(OrElse(authorizedEmails, <<>>), ",")
      mapped == [k \in 1..Len(pieces) |-> ToLowerCase(Trim(pieces[k]))]
  IN SelectSeq(mapped, LAMBDA e : Len(e) > 0)

\* A match that takes every entry for a suffix, "@" or not.
IsAuthorizedAnySuffix(email, emailList) ==
  IF Len(emailList) > 0 /\ Truthy(email)
    THEN \E k \in 1..Len(emailList) :
           \/ EndsWith(ToLowerCase(email.s), emailList[k])
           \/ ToLowerCase(email.s) = emailList[k]
    ELSE FALSE

\* isAuthorized of a decoded email against the allow-list.
IsAuthorized(email, emailList) ==
  IF Len(emailList) > 0 /\ Truthy(email)
    THEN \E k \in 1..Len(emailList) :
           IF StartsWith(emailList[k], <<"@">>)
             THEN EndsWith(ToLowerCase(email.s), emailList[k])
             ELSE ToLowerCase(email.s) = emailList[k]
    ELSE FALSE

NotInitializedMessage == "Firebase Admin SDK not initialized"
InvalidTokenMessage == "Invalid or expired token"

\* The message of the error verifyIdToken rejects with.
SdkErrorMessage(tok) ==
  IF tok.kind = "expired" THEN "auth/id-token-expired" ELSE "auth/argument-error"

Returned(fn, v) == [fn |-> fn, kind |-> "returned", value |-> v]
Threw(fn, m) == [fn |-> fn, kind |-> "threw", message |-> m]

\* A catch block that throws the error it caught.
VerifyCatchRethrows(errorMsg) ==
  [log |-> <<[event |-> "Token verification failed", errorMsg |-> errorMsg]>>,
   outcome |-> Threw("verifyFirebaseToken", errorMsg)]

\* The catch block of verifyFirebaseToken: log the cause, throw the one error.
VerifyCatch(errorMsg) ==
  [log |-> <<[event |-> "Token verification failed", errorMsg |-> errorMsg]>>,
   outcome |-> Threw("verifyFirebaseToken", InvalidTokenMessage)]

\* ------------------------------------------------- token verifier: calls

Callers == {"v1", "v2"}

\* Lines 239-247: initialization, and verifyIdToken started; with no app the
\* error thrown inside the try block goes through the catch block.
VerifyStart(u, tok) ==
  /\ vpc[u] = "idle"
  /\ ncalls[u] < MaxCalls
  /\ ncalls' = [ncalls EXCEPT ![u] = @ + 1]
  /\ apps' = InitializeFirebaseAdmin.apps
  /\ firebaseApp' = InitializeFirebaseAdmin.firebaseApp
  /\ IF InitializeFirebaseAdmin.ret = Null
       THEN /\ log' = log \o InitializeFirebaseAdmin.log
                          \o <<[event |-> "not initialized - check configuration"]>>
                          \o VerifyCatch(NotInitializedMessage).log
            /\ outcome' = [outcome EXCEPT ![u] = VerifyCatch(NotInitializedMessage).outcome]
            /\ UNCHANGED <<vpc, token>>
       ELSE /\ log' = log \o InitializeFirebaseAdmin.log
            /\ token' = [token EXCEPT ![u] = tok]
            /\ vpc' = [vpc EXCEPT ![u] = "verifying"]
            /\ outcome' = [outcome EXCEPT ![u] = [kind |-> "pending"]]
  /\ UNCHANGED <<env, uploadVars>>

\* Lines 247-285: verifyIdToken settles; the decoded email is matched against
\* the allow-list, or the rejection goes through the catch block.
VerifyDone(u) ==
  /\ vpc[u] = "verifying"
  /\ vpc' = [vpc EXCEPT ![u] = "idle"]
  /\ IF token[u].kind = "valid"
       THEN /\ outcome' = [outcome EXCEPT ![u] =
                 Returned("verifyFirebaseToken",
                   [uid |-> token[u].uid, email |-> token[u].email,
                    isAuthorized |-> IsAuthorized(token[u].email,
                                                  EmailList(env.authorizedEmails))])]
            /\ log' = Append(log, [event |-> "Token verified"])
       ELSE /\ outcome' = [outcome EXCEPT ![u] =
                 VerifyCatch(SdkErrorMessage(token[u])).outcome]
            /\ log' = log \o VerifyCatch(SdkErrorMessage(token[u])).log
  /\ token' = [token EXCEPT ![u] = Null]
  /\ UNCHANGED <<env, apps, firebaseApp, ncalls, uploadVars>>

\* getFirebaseAuth
GetFirebaseAuth(u) ==
  /\ vpc[u] = "idle"
  /\ ncalls[u] < MaxCalls
  /\ ncalls' = [ncalls EXCEPT ![u] = @ + 1]
  /\ apps' = InitializeFirebaseAdmin.apps
  /\ firebaseApp' = InitializeFirebaseAdmin.firebaseApp
  /\ log' = log \o InitializeFirebaseAdmin.log
  /\ outcome' = [outcome EXCEPT ![u] =
       IF InitializeFirebaseAdmin.ret = Null
         THEN Threw("getFirebaseAuth", NotInitializedMessage)
         ELSE Returned("getFirebaseAuth", "auth")]
  /\ UNCHANGED <<env, vpc, token, uploadVars>>

\* --------------------------------------------------------- specifications

UploadInit(cs, rs) ==
  /\ clients = cs
  /\ now = 0
  /\ devMode \in BOOLEAN
  /\ registry \in rs
  /\ store = <<>>
  /\ pc = [c \in AllClients |-> "idle"]
  /\ req = [c \in AllClients |-> Null]
  /\ postId = [c \in AllClients |-> <<>>]
  /\ thumbnailFileName = [c \in AllClients |-> <<>>]
  /\ thumbnailUrl = [c \in AllClients |-> Undef]
  /\ i = [c \in AllClients |-> 0]
  /\ mediaFileName = [c \in AllClients |-> <<>>]
  /\ mediaFileNames = [c \in AllClients |-> <<>>]
  /\ updatedServers = [c \in AllClients |-> <<>>]
  /\ calls = [c \in AllClients |-> <<>>]
  /\ settled = [c \in AllClients |-> <<>>]
  /\ responses = [c \in AllClients |-> <<>>]

AuthInit(es) ==
  /\ env \in es
  /\ apps = <<>>
  /\ firebaseApp = Undef
  /\ vpc = [u \in Callers |-> "idle"]
  /\ token = [u \in Callers |-> Null]
  /\ outcome = [u \in Callers |-> [kind |-> "none"]]
  /\ ncalls = [u \in Callers |-> 0]
  /\ log = <<>>

\* No environment for the verifier: the upload runs leave it alone.
NoEnvironment ==
  [projectId |-> Undef, privateKey |-> Undef, clientEmail |-> Undef,
   authorizedEmails |-> Undef]

\* One client, every request.
Init == UploadInit({"c1"}, Registries) /\ AuthInit({NoEnvironment})

RequestsOf(cs) == IF Cardinality(cs) = 1 THEN Requests ELSE ConcurrentRequests

Next ==
  \E c \in AllClients :
    \/ c \in clients /\ pc[c] = "idle" /\ \E r \in RequestsOf(clients) : Receive(c, r)
    \/ \E out \in Outcomes : ThumbnailDone(c, out)
    \/ \E out \in Outcomes : MediaDone(c, out)
    \/ \E out \in Outcomes : MetadataDone(c, out)
    \/ \E out \in Outcomes : GetServersDone(c, out)
    \/ \E out \in Outcomes : UpdateServersDone(c, out)

Spec == Init /\ [][Next]_vars

\* Two clients at once, each with a valid request naming a server.
ConcInit == UploadInit(AllClients, {<<>>, <<<<"a">>>>}) /\ AuthInit({NoEnvironment})

ConcSpec == ConcInit /\ [][Next]_vars

\* The token verifier, under every environment.
VerifierInit == UploadInit({}, {<<>>}) /\ devMode = FALSE /\ AuthInit(Environments)

VerifierNext ==
  \E u \in Callers :
    \/ \E tok \in Tokens : VerifyStart(u, tok)
    \/ VerifyDone(u)
    \/ GetFirebaseAuth(u)

VerifierSpec == VerifierInit /\ [][VerifierNext]_vars

\* The allow-list match alone: a configuration that initializes, every
\* allow-list string and every token email over a few characters, one call.
ListChars == {"a", "A", "@", ",", " "}
EmailChars == {"a", "A", "@"}

AllowListStrings == {Undef} \cup {Str(l) : l \in SeqsUpTo(ListChars, MaxListLen)}
TokenEmails == {Undef} \cup {Str(e) : e \in SeqsUpTo(EmailChars, MaxEmailLen)}

AllowEnvironments ==
  [projectId : {Str(<<"p">>)},
   privateKey : {Str(<<Begin, EscapedNewline, "MIIEvQ", EscapedNewline, End>>)},
   clientEmail : {Str(<<"s", "@", "p">>)},
   authorizedEmails : AllowListStrings]

AllowInit ==
  UploadInit({}, {<<>>}) /\ devMode = FALSE /\ AuthInit(AllowEnvironments)

AllowNext ==
  \/ /\ ncalls["v1"] = 0
     /\ \E e \in TokenEmails :
          VerifyStart("v1", [kind |-> "valid", uid |-> "u", email |-> e])
  \/ VerifyDone("v1")

AllowSpec == AllowInit /\ [][AllowNext]_vars

\* ------------------------------------------------------- claims: upload

IsWrite(call) == call.op # "getServersList"
IsPostWrite(call) ==
  call.op \in {"uploadMediaFile", "uploadPostMetadataWithThumbnail"}

\* The request of c passed validation, described by its shape alone.
ValidShape(r) ==
  /\ r.title.t = "string" /\ Len(r.title.s) > 0
  /\ r.description.t = "string" /\ Len(r.description.s) > 0
  /\ r.files # Undef
  /\ r.files.media.t = "array" /\ Len(r.files.media.a) >= 1
  /\ r.files.thumbnail.t = "array" /\ Len(r.files.thumbnail.a) >= 1

MediaCount(c) == Len(req[c].files.media.a)

\* The invocation of c is over and every storage call it made succeeded.
FinishedAllOk(c) ==
  /\ c \in clients /\ pc[c] = "done"
  /\ ValidShape(req[c])
  /\ Len(settled[c]) = Len(calls[c])
  /\ \A k \in 1..Len(settled[c]) : settled[c][k].ok

\* The writes of c are thumbnail, media[0..N-1], metadata, in this order.
PostWritesInOrder(c, w) ==
  /\ Len(w) >= MediaCount(c) + 2
  /\ w[1].op = "uploadMediaFile"
  /\ w[1].buffer = req[c].files.thumbnail.a[1].buffer
  /\ w[1].name = thumbnailFileName[c]
  /\ \A k \in 1..MediaCount(c) :
       /\ w[k + 1].op = "uploadMediaFile"
       /\ w[k + 1].buffer = req[c].files.media.a[k].buffer
       /\ \E t \in 0..MaxClock :
            w[k + 1].name = MediaName(t, k - 1, req[c].files.media.a[k])
  /\ w[MediaCount(c) + 2].op = "uploadPostMetadataWithThumbnail"

\* The server field holds a string with a character that is no space.
NonBlankServer(r) ==
  /\ r.server.t = "string"
  /\ \E k \in 1..Len(r.server.s) : r.server.s[k] # " "

IsSuccessResponse(c) ==
  /\ Len(responses[c]) = 1
  /\ responses[c][1].status = 200
  /\ responses[c][1].body.success

\* C1 as stated: a valid request with N media files whose storage calls all
\* succeed makes exactly N+2 storage writes, thumbnail, media[0..N-1],
\* metadata in this order, and answers 200 with mediaCount = N.
C1_ExactlyNPlus2Writes ==
  \A c \in AllClients :
    FinishedAllOk(c) =>
      /\ Len(SelectSeq(calls[c], IsWrite)) = MediaCount(c) + 2
      /\ PostWritesInOrder(c, SelectSeq(calls[c], IsWrite))
      /\ IsSuccessResponse(c)
      /\ responses[c][1].body.mediaCount = MediaCount(c)

\* C1 amended: such a request makes exactly N+2 writes of post objects,
\* thumbnail, media[0..N-1], metadata in this order; one more write, of the
\* servers list, follows them exactly when a non-blank server name was
\* given; and the 200 response carries mediaCount = N.
C1_PostWritesThenRegistry ==
  \A c \in AllClients :
    FinishedAllOk(c) =>
      LET w == SelectSeq(calls[c], IsWrite)
          n == MediaCount(c)
      IN /\ Len(SelectSeq(calls[c], IsPostWrite)) = n + 2
         /\ PostWritesInOrder(c, w)
         /\ Len(w) = n + 2 + (IF NonBlankServer(req[c]) THEN 1 ELSE 0)
         /\ NonBlankServer(req[c]) => w[n + 3].op = "updateServersList"
         /\ IsSuccessResponse(c)
         /\ responses[c][1].body.mediaCount = n

\* Two media files and a server name, every call succeeded.
C1_Witness ==
  \E c \in AllClients :
    /\ FinishedAllOk(c)
    /\ MediaCount(c) = 2
    /\ NonBlankServer(req[c])
    /\ Len(calls[c]) = 6

\* A required field or file group is missing, or title or description empty.
MissingRequired(r) ==
  \/ r.title \in {Undef, Str(<<>>)}
  \/ r.description \in {Undef, Str(<<>>)}
  \/ r.files = Undef
  \/ r.files.media = Undef
  \/ r.files.thumbnail = Undef

NoStorageCall(c) == calls[c] = <<>> /\ settled[c] = <<>>

\* C2: a request with title, description, the media group or the thumbnail
\* group missing (or title or description empty) is answered 400 "Missing
\* required fields", with no storage call and storage untouched.
C2_MissingFieldsRejected ==
  \A c \in AllClients :
    (req[c] # Null /\ MissingRequired(req[c])) =>
      /\ pc[c] = "done"
      /\ responses[c] = <<[status |-> 400, body |-> [error |-> "Missing required fields"]]>>
      /\ NoStorageCall(c)
      /\ store = <<>>

\* The thumbnail group alone is missing from an otherwise valid request.
C2_Witness ==
  \E c \in AllClients :
    /\ req[c] # Null
    /\ pc[c] = "done"
    /\ Truthy(req[c].title) /\ Truthy(req[c].description)
    /\ req[c].files # Undef
    /\ req[c].files.media.t = "array" /\ Len(req[c].files.media.a) = 2
    /\ req[c].files.thumbnail = Undef
    /\ Len(responses[c]) = 1

\* The media list is empty or no list, or the thumbnail list is empty,
\* absent or no list.
BadFileGroups(r) ==
  \/ r.files = Undef
  \/ r.files.media.t # "array"
  \/ r.files.thumbnail.t # "array"
  \/ Len(r.files.media.a) = 0
  \/ Len(r.files.thumbnail.a) = 0

\* C3: a request whose media list is empty or not a list, or whose thumbnail
\* list is empty or absent, is answered 400 with no storage call.
C3_BadFileGroupsRejected ==
  \A c \in AllClients :
    (req[c] # Null /\ BadFileGroups(req[c])) =>
      /\ pc[c] = "done"
      /\ Len(responses[c]) = 1
      /\ responses[c][1].status = 400
      /\ NoStorageCall(c)
      /\ store = <<>>

\* Title, description and thumbnail are there and the media list is empty.
C3_Witness ==
  \E c \in AllClients :
    /\ req[c] # Null
    /\ pc[c] = "done"
    /\ Truthy(req[c].title) /\ Truthy(req[c].description)
    /\ req[c].files # Undef
    /\ req[c].files.media = Arr(<<>>)
    /\ req[c].files.thumbnail.t = "array" /\ Len(req[c].files.thumbnail.a) = 1
    /\ responses[c][1].body.error = "At least one media file is required"

\* C4: when the thumbnail upload, a media upload or the metadata write
\* fails, the request makes no further storage call and is answered 500,
\* never with success.
C4_FailureAborts ==
  \A c \in AllClients :
    \A k \in 1..Len(settled[c]) :
      (IsPostWrite(calls[c][k]) /\ ~settled[c][k].ok) =>
        /\ Len(calls[c]) = k
        /\ pc[c] = "done"
        /\ Len(responses[c]) = 1
        /\ responses[c][1].status = 500

\* The second of two media uploads failed, after two writes went through.
C4_Witness ==
  \E c \in AllClients :
    /\ req[c] # Null /\ ValidShape(req[c]) /\ MediaCount(c) = 2
    /\ NonBlankServer(req[c])
    /\ Len(settled[c]) = 3
    /\ settled[c][1].ok /\ settled[c][2].ok /\ ~settled[c][3].ok
    /\ pc[c] = "done"

\* The thumbnail, media and metadata writes of c all succeeded.
PostWritesOk(c) ==
  /\ req[c] # Null /\ ValidShape(req[c])
  /\ Len(settled[c]) >= MediaCount(c) + 2
  /\ \A k \in 1..(MediaCount(c) + 2) : settled[c][k].ok

RegistryStepFailed(c) ==
  \E k \in 1..Len(settled[c]) : ~IsPostWrite(calls[c][k]) /\ ~settled[c][k].ok

\* C5: once thumbnail, media and metadata are written and a non-blank server
\* name was given, the invocation ends with 200, the post id and
\* mediaCount = N, whether getServersList or updateServersList failed or not.
C5_RegistryFailureSwallowed ==
  \A c \in AllClients :
    (PostWritesOk(c) /\ NonBlankServer(req[c]) /\ pc[c] = "done") =>
      /\ IsSuccessResponse(c)
      /\ responses[c][1].body.postId = postId[c]
      /\ responses[c][1].body.mediaCount = MediaCount(c)

\* updateServersList failed after getServersList succeeded.
C5_Witness ==
  \E c \in AllClients :
    /\ PostWritesOk(c) /\ NonBlankServer(req[c]) /\ pc[c] = "done"
    /\ Len(settled[c]) = MediaCount(c) + 4
    /\ settled[c][MediaCount(c) + 3].ok
    /\ ~settled[c][MediaCount(c) + 4].ok

\* The step in which the updateServersList call of c succeeds.
RegistryUpdated(c) ==
  /\ pc[c] = "updateServers"
  /\ pc'[c] = "done"
  /\ settled'[c][Len(settled'[c])].ok

NoDuplicates(s) == \A j, k \in 1..Len(s) : s[j] = s[k] => j = k

RECURSIVE InCodeUnitOrder(_)
InCodeUnitOrder(s) ==
  Len(s) < 2 \/ (~StrLess(s[2], s[1]) /\ InCodeUnitOrder(Tail(s)))

\* C6: a successful registry update by a single upload naming s, on a
\* registry R, writes the sorted list of the distinct elements of R and s:
\* it holds s, has no duplicates, is sorted, and has R's elements alone when
\* s was in R.
C6_RegistrySortedUnion ==
  [][\A c \in AllClients :
       RegistryUpdated(c) =>
         /\ Range(registry') = Range(registry) \cup {req[c].server.s}
         /\ NoDuplicates(registry')
         /\ InCodeUnitOrder(registry')
         /\ req[c].server.s \in Range(registry) => registry' = registry]_vars

\* "B" was added to a registry that held "a" and "ab", and went first.
C6_Witness ==
  \E c \in AllClients :
    /\ pc[c] = "done"
    /\ req[c].server = Str(<<"B">>)
    /\ Len(settled[c]) = Len(calls[c])
    /\ calls[c][Len(calls[c])].op = "updateServersList"
    /\ settled[c][Len(settled[c])].ok
    /\ registry = << <<"B">>, <<"a">>, <<"a", "b">> >>

\* ------------------------------------------------ claims: concurrency

\* c has answered after issuing its updateServersList call.
WroteRegistry(c) ==
  /\ pc[c] = "done"
  /\ calls[c] # <<>>
  /\ calls[c][Len(calls[c])].op = "updateServersList"

\* Each of the two computed its list without the other's name: both reads
\* came before either write took effect.
BothReadBeforeWrites ==
  /\ WroteRegistry("c1") /\ WroteRegistry("c2")
  /\ req["c1"].server # req["c2"].server
  /\ req["c2"].server.s \notin Range(updatedServers["c1"])
  /\ req["c1"].server.s \notin Range(updatedServers["c2"])

\* C7: when two uploads naming different new servers both read the registry
\* before either writes it, both are answered 200 and the registry, the list
\* of whichever write came last, lacks one of the two names: nothing detects
\* the conflict.
C7_LostUpdate ==
  BothReadBeforeWrites =>
    /\ IsSuccessResponse("c1") /\ IsSuccessResponse("c2")
    /\ ~({req["c1"].server.s, req["c2"].server.s} \subseteq Range(registry))
    /\ (\E c \in AllClients : settled[c][Len(settled[c])].ok) =>
         registry \in {updatedServers["c1"], updatedServers["c2"]}

\* Both writes succeeded on an empty registry and one name is lost.
C7_Witness ==
  /\ BothReadBeforeWrites
  /\ \A c \in AllClients : settled[c][Len(settled[c])].ok
  /\ Len(registry) = 1
  /\ \A c \in AllClients : updatedServers[c] = <<req[c].server.s>>

\* ------------------------------------------------------ claims: verifier

VerifyThrew(u) ==
  outcome[u].kind = "threw" /\ outcome[u].fn = "verifyFirebaseToken"

\* C8 as stated: with the private key missing from the configuration, the
\* error of a verifyFirebaseToken call is the not-initialized error, which
\* the caller can tell from the invalid-or-expired-token error.
C8_InitErrorDistinct ==
  \A u \in Callers :
    (~Truthy(env.privateKey) /\ VerifyThrew(u)) =>
      /\ outcome[u].message = NotInitializedMessage
      /\ outcome[u].message # InvalidTokenMessage

\* C9: whatever made verifyFirebaseToken fail (a token rejected as expired
\* or malformed, no initialized client), the caller gets the one error
\* "Invalid or expired token".
C9_UniformError ==
  \A u \in Callers :
    VerifyThrew(u) => outcome[u] = Threw("verifyFirebaseToken", "Invalid or expired token")

Logged(cause) ==
  \E k \in 1..Len(log) :
    log[k].event = "Token verification failed" /\ log[k].errorMsg = cause

\* Two calls failed for different causes, both logged, with the same error.
C9_Witness ==
  /\ VerifyThrew("v1") /\ VerifyThrew("v2")
  /\ outcome["v1"] = outcome["v2"]
  /\ Logged("auth/id-token-expired")
  /\ Logged("auth/argument-error")

IsConfigFailure(e) == e.event \in {"config missing", "key format invalid"}

\* The initialization attempts that failed on the configuration.
ConfigFailures == SelectSeq(log, IsConfigFailure)

CallsMade == ncalls["v1"] + ncalls["v2"]

NeverReady ==
  /\ apps = <<>>
  /\ firebaseApp = Undef
  /\ \A u \in Callers : vpc[u] = "idle" /\ outcome[u].kind \in {"none", "threw"}

\* C10 as stated: after an initialization attempt has failed on a missing
\* field or missing key markers, no later call attempts initialization
\* again, Ready is never reached and every later call fails.
C10_FailedIsTerminal ==
  /\ Len(ConfigFailures) <= 1
  /\ ConfigFailures # <<>> => NeverReady

\* C10 amended: after such a failure nothing is remembered: every call
\* reads and validates the configuration again, fails on it again, Ready
\* is not reached and every call fails.
C10_EveryCallRetriesAndFails ==
  ConfigFailures # <<>> =>
    /\ NeverReady
    /\ Len(ConfigFailures) = CallsMade

\* A key without its end marker: verifyFirebaseToken failed, then
\* getFirebaseAuth failed on the same check.
C10_Witness ==
  /\ env.privateKey = Str(<<Begin, EscapedNewline, "MIIEvQ">>)
  /\ Len(ConfigFailures) >= 2
  /\ VerifyThrew("v1")
  /\ outcome["v2"] = Threw("getFirebaseAuth", NotInitializedMessage)

\* The runs of lines 181-226: each reads the configuration and logs how it
\* ended.
IsConfigRead(e) ==
  e.event \in {"config missing", "key format invalid", "initialized",
               "initializeApp failed"}

IsConstruction(e) == e.event = "initialized"

\* C11: the credential client is constructed at most once; once it exists
\* every later initialization returns it without reading the configuration
\* or constructing another, and it is never dropped.
C11_ConstructedOnce ==
  /\ [](/\ Len(apps) <= 1
        /\ Len(SelectSeq(log, IsConstruction)) = Len(apps)
        /\ apps # <<>> => firebaseApp = apps[1])
  /\ [][apps # <<>> =>
          /\ apps' = apps
          /\ firebaseApp' = firebaseApp
          /\ SelectSeq(log', IsConfigRead) = SelectSeq(log, IsConfigRead)]_vars

\* The client exists and four calls were made, the last two of them a
\* getFirebaseAuth that returned and a verification that went through.
C11_Witness ==
  /\ Len(apps) = 1
  /\ CallsMade = 4
  /\ outcome["v1"] = Returned("getFirebaseAuth", "auth")
  /\ outcome["v2"].kind = "returned" /\ outcome["v2"].fn = "verifyFirebaseToken"

\* The entries of an allow-list string, read off the string: e is an entry
\* when some stretch a..b of the string, without comma and with no space at
\* either end, lower-cases to e and has only spaces between it and the
\* commas (or string ends) on either side.
AllowEntries(l) ==
  { ToLowerCase(SubSeq(l, a, b)) : <<a, b>> \in
      { ab \in (1..Len(l)) \X (1..Len(l)) :
          /\ ab[1] <= ab[2]
          /\ \A k \in ab[1]..ab[2] : l[k] # ","
          /\ l[ab[1]] # " " /\ l[ab[2]] # " "
          /\ \E lo \in 1..ab[1] :
               /\ lo = 1 \/ l[lo - 1] = ","
               /\ \A k \in lo..(ab[1] - 1) : l[k] = " "
          /\ \E hi \in ab[2]..Len(l) :
               /\ hi = Len(l) \/ l[hi + 1] = ","
               /\ \A k \in (ab[2] + 1)..hi : l[k] = " " } }

\* The lower-cased email is an entry, or ends with an entry that starts
\* with "@".
Matches(email, entries) ==
  \E e \in entries :
    \/ ToLowerCase(email) = e
    \/ /\ e[1] = "@"
       /\ \E p \in SeqsUpTo(EmailChars, MaxEmailLen + 1) : ToLowerCase(email) = ToLowerCase(p) \o e

ExpectedAuthorized(email, list) ==
  /\ list.t = "string"
  /\ AllowEntries(list.s) # {}
  /\ email.t = "string"
  /\ Matches(email.s, AllowEntries(list.s))

\* C12: for every verified token and allow-list string, isAuthorized is
\* true exactly when the parsed list is non-empty, the email is present and
\* its lower-cased form equals an entry or ends with an entry that starts
\* with "@".
C12_AuthorizedExactly ==
  \A u \in Callers :
    (outcome[u].kind = "returned" /\ outcome[u].fn = "verifyFirebaseToken") =>
      outcome[u].value.isAuthorized =
           ExpectedAuthorized(outcome[u].value.email, env.authorizedEmails)

\* A domain entry written with a space and a capital matches a capitalised
\* email.
C12_Witness ==
  /\ env.authorizedEmails = Str(<<" ", "@", "A">>)
  /\ outcome["v1"] =
       Returned("verifyFirebaseToken",
                [uid |-> "u", email |-> Str(<<"A", "@", "a">>), isAuthorized |-> TRUE])

\* Client c was answered 500.
Answered500(c) ==
  pc[c] = "done" /\ Len(responses[c]) = 1 /\ responses[c][1].status = 500

\* Two requests hit a storage error at the same call of the same request
\* body; only the errors' messages may differ.
SameFailurePoint(c, d) ==
  /\ Answered500(c) /\ Answered500(d)
  /\ req[c] = req[d]
  /\ Len(settled[c]) = Len(settled[d])

\* C13: outside development mode the body of a 500 response (error and
\* details) does not depend on the message of the storage error: two
\* requests that differ only in that message get identical bodies.
C13_BodyIndependentOfMessage ==
  ~devMode =>
    \A c \in clients : \A d \in clients :
      SameFailurePoint(c, d) => responses[c][1].body = responses[d][1].body

\* The metadata object of client c's post is in storage.
MetadataPersisted(c) ==
  /\ req[c] # Null
  /\ MetadataKey(postId[c]) \in DOMAIN store

\* The request's nsfw field is the string "true" or the boolean true.
NsfwRequested(r) ==
  \/ r.nsfw.t = "string" /\ r.nsfw.s = <<"t", "r", "u", "e">>
  \/ r.nsfw.t = "boolean" /\ r.nsfw.b

\* C14: the nsfw flag of the persisted metadata is true exactly when the
\* request's nsfw field is the string "true" or the boolean true, and false
\* for "false", an absent field or any other value.
C14_NsfwCoercion ==
  \A c \in clients :
    MetadataPersisted(c) =>
      store[MetadataKey(postId[c])].metadata.nsfw = NsfwRequested(req[c])

\* Metadata persisted with the flag off for the string "True".
C14_Witness ==
  /\ MetadataPersisted("c1")
  /\ req["c1"].nsfw = Str(<<"T", "r", "u", "e">>)
  /\ store[MetadataKey(postId["c1"])].metadata.nsfw = FALSE

\* The call in which c wrote its metadata.
MetadataCallOf(c) == calls[c][MediaCount(c) + 2]

\* In this step c passes validation and computes its identifier.
ComputesPostId(c) == pc[c] = "idle" /\ pc'[c] = "thumbnail"

\* In this step the metadata write of c succeeds.
MetadataWritten(c) ==
  /\ pc[c] = "metadata"
  /\ Len(settled'[c]) = Len(settled[c]) + 1
  /\ settled'[c][Len(settled'[c])].ok

\* Both uploads are over, every post write went through, and the two
\* identifiers are the same.
Collided ==
  /\ \A c \in AllClients : PostWritesOk(c) /\ pc[c] = "done"
  /\ postId["c1"] = postId["c2"]

\* C15: the post identifier is the clock reading and nothing else, so two
\* valid uploads that read the same millisecond get the same postId; the
\* metadata write goes to the key of that identifier whatever is stored
\* there, so the later write replaces the earlier one, and both uploads are
\* answered 200 with the shared postId.
C15_SameMillisecondCollides ==
  /\ [][\A c \in clients :
          ComputesPostId(c) => \E t \in now..now' : postId'[c] = ToString(t)]_vars
  /\ [][\A c \in clients :
          MetadataWritten(c) =>
            /\ DOMAIN store' = DOMAIN store \cup {MetadataKey(postId[c])}
            /\ store'[MetadataKey(postId[c])] = calls[c][Len(calls[c])]
            /\ \A k \in DOMAIN store :
                 k # MetadataKey(postId[c]) => store'[k] = store[k]]_vars
  /\ [](Collided =>
          /\ \A c \in AllClients :
               IsSuccessResponse(c) /\ responses[c][1].body.postId = postId["c1"]
          /\ store[MetadataKey(postId["c1"])] \in
               {MetadataCallOf("c1"), MetadataCallOf("c2")})

\* Both uploads were answered 200 with the same postId; their metadata
\* differ and only that of c2 is in storage.
C15_Witness ==
  /\ Collided
  /\ \A c \in AllClients : IsSuccessResponse(c)
  /\ MetadataCallOf("c1") # MetadataCallOf("c2")
  /\ store[MetadataKey(postId["c1"])] = MetadataCallOf("c2")

\* c has made its metadata call.
MetadataCalled(c) ==
  /\ req[c] # Null /\ ValidShape(req[c])
  /\ Len(calls[c]) >= MediaCount(c) + 2

\* C16: the mediaFiles list of every metadata call holds the names given to
\* the request's media uploads, which all succeeded, in upload order and one
\* per media file, and the thumbnail URL passed is the one the request's
\* thumbnail upload returned.
C16_MetadataListsUploads ==
  \A c \in clients :
    \A n \in 1..Len(calls[c]) :
      calls[c][n].op = "uploadPostMetadataWithThumbnail" =>
        /\ n = MediaCount(c) + 2
        /\ \A k \in 1..(n - 1) :
             calls[c][k].op = "uploadMediaFile" /\ settled[c][k].ok
        /\ calls[c][n].metadata.mediaFiles =
             [k \in 1..MediaCount(c) |-> calls[c][k + 1].name]
        /\ calls[c][n].thumbnailUrl =
             Str(UrlOf(calls[c][1].postId, calls[c][1].name))

\* A metadata call after two media uploads with different generated names.
C16_Witness ==
  /\ MetadataCalled("c1")
  /\ MediaCount("c1") = 2
  /\ calls["c1"][2].name # calls["c1"][3].name
  /\ MetadataCallOf("c1").metadata.mediaFiles = <<calls["c1"][2].name, calls["c1"][3].name>>

IsRegistryCall(call) == call.op \in {"getServersList", "updateServersList"}

\* c may touch the registry: its request passed validation, its thumbnail,
\* media and metadata writes went through, and its server name is non-blank.
MayTouchRegistry(c) ==
  /\ PostWritesOk(c)
  /\ NonBlankServer(req[c])

\* C17: a request calls getServersList or updateServersList only after it
\* passed validation, completed its thumbnail, media and metadata writes and
\* gave a server name that is non-blank after trimming; the registry changes
\* only in a step of such a request, so a blank or absent name, a 400 and a
\* storage failure of a post write all leave it as it was.
C17_RegistryUntouchedUnlessNamed ==
  /\ [](\A c \in clients :
          \A n \in 1..Len(calls[c]) :
            IsRegistryCall(calls[c][n]) =>
              MayTouchRegistry(c) /\ n > MediaCount(c) + 2)
  /\ [][registry' # registry =>
          \E c \in clients :
            /\ MayTouchRegistry(c)
            /\ pc[c] = "updateServers" /\ pc'[c] = "done"]_vars

\* A request with a whitespace-only server name ended 200 with no registry
\* call.
C17_Witness ==
  /\ PostWritesOk("c1")
  /\ req["c1"].server = Str(<<" ">>)
  /\ pc["c1"] = "done" /\ IsSuccessResponse("c1")
  /\ Len(calls["c1"]) = MediaCount("c1") + 2

\* c's invocation has started and is not over.
InProgress(c) == pc[c] \notin {"idle", "done"}

PostWriteFailed(c) ==
  \E k \in 1..Len(settled[c]) : IsPostWrite(calls[c][k]) /\ ~settled[c][k].ok

\* C18: an invocation that is over has sent exactly one response, with
\* status 200, 400 or 500, and one that is not over has sent none and waits
\* for exactly one storage call, of at most N+4; a validation failure is
\* answered 400, a failed post write 500, and 200 is sent only when the
\* metadata write has succeeded, a failed registry step included.
C18_ExactlyOneResponse ==
  \A c \in clients :
    /\ Len(responses[c]) <= 1
    /\ pc[c] = "done" <=> Len(responses[c]) = 1
    /\ InProgress(c) =>
         /\ Len(calls[c]) = Len(settled[c]) + 1
         /\ Len(calls[c]) <= MediaCount(c) + 4
    /\ pc[c] = "done" =>
         /\ Len(calls[c]) = Len(settled[c])
         /\ responses[c][1].status \in {200, 400, 500}
         /\ responses[c][1].status = 400 <=> ~ValidShape(req[c])
         /\ responses[c][1].status = 500 <=> PostWriteFailed(c)
         /\ responses[c][1].status = 200 <=>
              /\ PostWritesOk(c)
              /\ calls[c][MediaCount(c) + 2].op = "uploadPostMetadataWithThumbnail"

\* One 200 response after the registry read failed.
C18_Witness ==
  /\ pc["c1"] = "done"
  /\ RegistryStepFailed("c1")
  /\ Len(calls["c1"]) = MediaCount("c1") + 3
  /\ responses["c1"] = <<[status |-> 200,
                          body |-> responses["c1"][1].body]>>

\* The storage call number n of c failed after n - 1 writes of c succeeded,
\* and c was answered 500.
FailedAfterWrites(c, n) ==
  /\ Answered500(c)
  /\ Len(settled[c]) = n
  /\ ~settled[c][n].ok
  /\ \A k \in 1..(n - 1) : settled[c][k].ok

\* C19: when a storage call of a request fails after k earlier writes of the
\* request succeeded, the k objects written are still in storage, as
\* written, once the 500 is sent, and no metadata of the post is stored.
C19_NoRollback ==
  \A c \in clients :
    \A n \in 1..Len(settled[c]) :
      FailedAfterWrites(c, n) =>
        /\ \A k \in 1..(n - 1) :
             /\ Key(postId[c], calls[c][k].name) \in DOMAIN store
             /\ store[Key(postId[c], calls[c][k].name)] = calls[c][k]
        /\ MetadataKey(postId[c]) \notin DOMAIN store

\* The metadata write failed after the thumbnail and two media files were
\* written: three objects are left in storage.
C19_Witness ==
  /\ FailedAfterWrites("c1", 4)
  /\ MediaCount("c1") = 2
  /\ Cardinality(DOMAIN store) = 3

====
